---- MODULE Spec2Model ----
(***************************************************************************)
(* A model of src/http.rs: a Client owning one curl Easy handle behind a   *)
(* RefCell, the Request built on a mutable borrow of that handle, the      *)
(* transfer performed by send()/handle_request() with its read, write and  *)
(* header callbacks, and the Response accessors.                           *)
(*                                                                         *)
(* Strings and byte vectors are sequences of characters.  Option<T> is a   *)
(* sequence of length 0 (None) or 1 (Some).  The curl binding is modelled  *)
(* by what its calls do to the handle's options; a call may report a       *)
(* native error, and a call that converts a Rust string to a C string      *)
(* reports one whenever the string holds an interior NUL.                  *)
(***************************************************************************)
EXTENDS Integers, Sequences, FiniteSets, TLC

VARIABLES
    base_url,          \* Client.base_url
    token,             \* Client.token
    shared_handle,     \* the options set on Client.shared_handle's Easy
    borrowed,          \* the RefCell's borrow flag: a RefMut is alive
    req,               \* Option<Request>: the live Request, if any
    pc,                \* "idle" | "building" | "perform" | "panic"
    rest,              \* send(): the slice `body` the read closure consumes
    response_body,     \* handle_request(): response_body
    response_headers,  \* handle_request(): response_headers
    result,            \* what the last finished call returned
    trace,             \* the fallible calls the current request has made
    failed,            \* the call that reported an error, or "none"
    op,                \* the operation of the last step
    cur,               \* the method, endpoint and entry point of the current request
    staleVerb,         \* the current request found a custom verb left on the handle
    nreads,            \* read callback invocations in this transfer
    nrecv,             \* write and header callback invocations in this transfer
    lastRead,          \* the last read callback invocation
    delivered,         \* the bytes the read callback has put in the buffers
    wire,              \* how the last transfer ended on the wire
    answer             \* the last Response accessor call and its value

vars == << base_url, token, shared_handle, borrowed, req, pc, rest,
           response_body, response_headers, result, trace, failed, op, cur,
           staleVerb, nreads, nrecv, lastRead, delivered, wire, answer >>

---------------------------------------------------------------------------
(* Bounds of the model. *)

\* with_header calls on one Request
MaxHeaders == 1
\* length of a request body
MaxBodyLen == 2
\* length of the buffer the transport offers the read callback
MaxBuf == 2
\* read callback invocations in one transfer
MaxReads == 3
\* write and header callback invocations in one transfer
MaxRecv == 1
\* largest status given to the Response accessors
MaxStatus == 700

---------------------------------------------------------------------------
(* Values. *)

None == << >>
Some(x) == << x >>
IsSome(o) == Len(o) = 1
Unwrap(o) == o[1]

Min(a, b) == IF a <= b THEN a ELSE b

Methods == {"Get", "Head", "Post", "Put", "Delete"}

BaseUrls == { <<"h">>, <<"h", "/">> }
Endpoints == { <<"/", "x">>, <<"x">>, <<"NUL">> }
Tokens == { <<"t">> }
HeaderKeys == { <<"k">> }
HeaderValues == { <<"v">>, <<"v", "NL", "w">>, <<"NUL">> }
Bytes == {"p", "q"}
Statuses == {200, 404, 500}
Chunks == { <<"d">> }
HeaderData == { <<"h">>, <<"BAD">> }

RECURSIVE SeqsUpTo(_, _)
SeqsUpTo(S, n) ==
    IF n = 0 THEN { << >> }
    ELSE LET shorter == SeqsUpTo(S, n - 1)
         IN  shorter \cup { Append(s, x) : s \in shorter, x \in S }

Bodies == SeqsUpTo(Bytes, MaxBodyLen)

\* CString::new: a string with an interior NUL cannot be converted
HasNul(s) == \E i \in 1..Len(s) : s[i] = "NUL"

\* format!("{}{}", a, b)
Format2(a, b) == a \o b

\* format!("{}: {}", key, value)
HeaderLine(key, value) == key \o <<":", " ">> \o value

\* format!("User-Agent: anyshortcut-cli/{}", "0.0.1")
UserAgent == <<"User-Agent", ":", " ", "anyshortcut-cli/">> \o <<"0.0.1">>

\* String::from_utf8_lossy: invalid bytes become U+FFFD
Lossy(data) == [i \in 1..Len(data) |-> IF data[i] = "BAD" THEN "FFFD" ELSE data[i]]

---------------------------------------------------------------------------
(* The handle: the options of one curl Easy. *)

\* Easy::new()
FreshHandle ==
    [ httpget       |-> FALSE,
      customrequest |-> None,
      nobody        |-> FALSE,
      url           |-> None,
      verbose       |-> FALSE,
      httpheader    |-> None,
      upload        |-> FALSE,
      infilesize    |-> -1 ]

ResetKeepsVerb(h) == [FreshHandle EXCEPT !.customrequest = h.customrequest]

\* handle.reset(): every option back to its default
Reset(h) == FreshHandle

Step(name, arg) == [op |-> name, arg |-> arg]

\* the effect of one successful configuration call
Apply(h, s) ==
    CASE s.op = "get"            -> [h EXCEPT !.httpget = s.arg]
      [] s.op = "custom_request" -> [h EXCEPT !.customrequest = Some(s.arg)]
      [] s.op = "nobody"         -> [h EXCEPT !.nobody = s.arg]
      [] s.op = "url"            -> [h EXCEPT !.url = Some(s.arg)]
      [] s.op = "verbose"        -> [h EXCEPT !.verbose = s.arg]
      [] s.op = "http_headers"   -> [h EXCEPT !.httpheader = Some(s.arg)]
      [] s.op = "upload"         -> [h EXCEPT !.upload = s.arg]
      [] s.op = "in_filesize"    -> [h EXCEPT !.infilesize = s.arg]
      [] OTHER                   -> h

\* whether a call reports an error: a native one, or a string it cannot convert
StepFails(s, native) ==
    \/ native
    \/ s.op \in {"url", "custom_request"} /\ HasNul(s.arg)

RECURSIVE ExecIgnoringErrors(_, _, _, _)
ExecIgnoringErrors(h, steps, i, failAt) ==
    IF i > Len(steps) THEN [handle |-> h, trace |-> << >>, failed |-> "none"]
    ELSE LET hh == IF StepFails(steps[i], i = failAt) THEN h ELSE Apply(h, steps[i])
             r  == ExecIgnoringErrors(hh, steps, i + 1, failAt)
         IN  [r EXCEPT !.trace = <<steps[i].op>> \o @,
                       !.failed = IF StepFails(steps[i], i = failAt)
                                  THEN steps[i].op ELSE @]

\* a run of calls each followed by `?`: the first error ends the run
RECURSIVE Exec(_, _, _, _)
Exec(h, steps, i, failAt) ==
    IF i > Len(steps) THEN [handle |-> h, trace |-> << >>, failed |-> "none"]
    ELSE IF StepFails(steps[i], i = failAt)
         THEN [handle |-> h, trace |-> <<steps[i].op>>, failed |-> steps[i].op]
         ELSE LET r == Exec(Apply(h, steps[i]), steps, i + 1, failAt)
              IN  [r EXCEPT !.trace = <<steps[i].op>> \o @]

\* Request::new: the calls for the verb, then the url
VerbSteps(method) ==
    CASE method = "Get"    -> << Step("get", TRUE) >>
      [] method = "Head"   -> << Step("get", TRUE), Step("custom_request", <<"HEAD">>),
                                 Step("nobody", TRUE) >>
      [] method = "Post"   -> << Step("custom_request", <<"POST">>) >>
      [] method = "Put"    -> << Step("custom_request", <<"PUT">>) >>
      [] method = "Delete" -> << Step("custom_request", <<"DELETE">>) >>

NewSteps(method, url) == VerbSteps(method) \o << Step("url", url) >>

\* send(): match self.body { Some(..) => upload path, None => no upload }
HasBody(r) == IsSome(r.body)

UploadSizePlusOne(body) == Len(body) + 1

\* send(): body.len() as u64
UploadSize(body) == Len(body)

\* send() up to perform(): verbose, the headers, the upload options, the callbacks
SendSteps(r) ==
    << Step("verbose", TRUE), Step("http_headers", r.headers) >>
    \o (IF HasBody(r)
        THEN << Step("upload", TRUE), Step("in_filesize", UploadSize(Unwrap(r.body))) >>
        ELSE << >>)
    \o << Step("read_function", 0), Step("write_function", 0),
          Step("header_function", 0) >>

\* the Request that Request::new returns
NewRequest == [headers |-> << UserAgent >>, body |-> None]

BorrowMutUnchecked(b) == "ok"

\* RefCell::borrow_mut: panics when the cell is already borrowed
BorrowMut(b) == IF b THEN "panic" ELSE "ok"

AppendAcceptsAll(line) == FALSE

\* curl::easy::List::append: the line must convert to a C string
AppendFails(line) == HasNul(line)

PerformFailsOnHttpError(native, status) == native \/ status >= 400

\* perform(): only a native error fails the transfer
PerformFails(native, status) == native

DropLeaksBorrow(b) == b

\* dropping the Request drops its RefMut, which releases the borrow
ReleaseBorrow(b) == FALSE

ConcatWithSlash(base, endpoint) == base \o <<"/">> \o endpoint

\* Client::request: let url = format!("{}{}", self.base_url, endpoint)
RequestUrl(base, endpoint) == Format2(base, endpoint)

ReadIgnoresBuffer(buflen, slice) == Len(slice)

\* <&[u8] as Read>::read(buffer).unwrap_or(0): the number of bytes copied
ReadLen(buflen, slice) == Min(buflen, Len(slice))

FailedBelow600(status) == status >= 400 /\ status < 600

\* Response::failed
Failed(status) == status >= 400 /\ status <= 600

\* Response::ok
Ok(status) == ~Failed(status)

NoResult == [kind |-> "none"]
Error == [kind |-> "error"]
Response(status, headers, body) ==
    [kind |-> "response", status |-> status, headers |-> headers, body |-> body]

NoRead == [buf |-> 0, before |-> 0, ret |-> 0]
NoWire == [err |-> FALSE, status |-> 0]
NoCur == [method |-> "none", endpoint |-> << >>, via |-> "none"]
NoAnswer == [fn |-> "none", val |-> FALSE]

---------------------------------------------------------------------------
(* The state after Client::new(base_url, token). *)

Init ==
    /\ base_url \in BaseUrls
    /\ token \in Tokens
    /\ shared_handle = FreshHandle
    /\ borrowed = FALSE
    /\ req = None
    /\ pc = "idle"
    /\ rest = << >>
    /\ response_body = << >>
    /\ response_headers = << >>
    /\ result = NoResult
    /\ trace = << >>
    /\ failed = "none"
    /\ op = "new"
    /\ cur = NoCur
    /\ staleVerb = FALSE
    /\ nreads = 0
    /\ nrecv = 0
    /\ lastRead = NoRead
    /\ delivered = << >>
    /\ wire = NoWire
    /\ answer = NoAnswer

---------------------------------------------------------------------------
(* Building blocks of the actions. *)

\* the locals of handle_request() and of send()'s read closure, before a transfer
TransferIdle ==
    /\ rest' = << >>
    /\ response_body' = << >>
    /\ response_headers' = << >>
    /\ nreads' = 0
    /\ nrecv' = 0
    /\ lastRead' = NoRead
    /\ delivered' = << >>

\* borrow_mut() found the cell borrowed: the thread panics before reset()
Panics(name) ==
    /\ pc' = "panic"
    /\ op' = name
    /\ UNCHANGED << base_url, token, shared_handle, borrowed, req, rest,
                    response_body, response_headers, result, trace, failed, cur, staleVerb,
                    nreads, nrecv, lastRead, delivered, wire, answer >>

\* a `?` returned Err: the Request (or its RefMut) is dropped, the caller gets Error
ReturnsError ==
    /\ req' = None
    /\ borrowed' = ReleaseBorrow(borrowed)
    /\ pc' = "idle"
    /\ result' = Error
    /\ TransferIdle

\* send() has configured the handle and enters perform()
EntersPerform(r) ==
    /\ req' = Some(r)
    /\ borrowed' = TRUE
    /\ pc' = "perform"
    /\ result' = NoResult
    /\ rest' = IF HasBody(r) THEN Unwrap(r.body) ELSE << >>
    /\ response_body' = << >>
    /\ response_headers' = << >>
    /\ nreads' = 0
    /\ nrecv' = 0
    /\ lastRead' = NoRead
    /\ delivered' = << >>

---------------------------------------------------------------------------
(* Client::request(endpoint, method), lines 49-54, with Request::new, 68-95. *)

ClientRequest(endpoint, method, failAt) ==
    /\ pc \in {"idle", "building"}
    /\ IF BorrowMut(borrowed) = "panic"
       THEN Panics("request")
       ELSE LET url == RequestUrl(base_url, endpoint)
                r   == Exec(Reset(shared_handle), NewSteps(method, url), 1, failAt)
            IN  /\ op' = "request"
                /\ cur' = [method |-> method, endpoint |-> endpoint, via |-> "request"]
                /\ staleVerb' = IsSome(shared_handle.customrequest)
                /\ shared_handle' = r.handle
                /\ trace' = <<"reset">> \o r.trace
                /\ failed' = r.failed
                /\ IF r.failed = "none"
                   THEN /\ req' = Some(NewRequest)
                        /\ borrowed' = TRUE
                        /\ pc' = "building"
                        /\ result' = NoResult
                        /\ TransferIdle
                   ELSE ReturnsError
                /\ wire' = NoWire
                /\ UNCHANGED << base_url, token, answer >>

(* Request::with_header(key, value), lines 97-100. *)

WithHeader(key, value) ==
    /\ pc = "building"
    /\ Len(Unwrap(req).headers) <= MaxHeaders
    /\ LET r    == Unwrap(req)
           line == HeaderLine(key, value)
       IN  /\ op' = "with_header"
           /\ trace' = Append(trace, "append")
           /\ IF AppendFails(line)
              THEN /\ failed' = "append"
                   /\ ReturnsError
              ELSE /\ failed' = "none"
                   /\ req' = Some([r EXCEPT !.headers = Append(@, line)])
                   /\ UNCHANGED << borrowed, pc, result, rest, response_body,
                                   response_headers, nreads, nrecv, lastRead,
                                   delivered >>
           /\ UNCHANGED << base_url, token, shared_handle, cur, staleVerb, wire, answer >>

(* Request::send(), lines 103-118, up to handle_request()'s perform(), 121-143. *)

Send(failAt) ==
    /\ pc = "building"
    /\ LET r == Unwrap(req)
           x == Exec(shared_handle, SendSteps(r), 1, failAt)
       IN  /\ op' = "send"
           /\ shared_handle' = x.handle
           /\ trace' = trace \o x.trace
           /\ failed' = x.failed
           /\ IF x.failed = "none" THEN EntersPerform(r) ELSE ReturnsError
           /\ UNCHANGED << base_url, token, cur, staleVerb, wire, answer >>

(* Client::get(endpoint), lines 56-58: request(endpoint, Get)?.send(). *)

ClientGet(endpoint, failAt) ==
    /\ pc \in {"idle", "building"}
    /\ IF BorrowMut(borrowed) = "panic"
       THEN Panics("get")
       ELSE LET url   == RequestUrl(base_url, endpoint)
                steps == NewSteps("Get", url) \o SendSteps(NewRequest)
                x     == Exec(Reset(shared_handle), steps, 1, failAt)
            IN  /\ op' = "get"
                /\ cur' = [method |-> "Get", endpoint |-> endpoint, via |-> "get"]
                /\ staleVerb' = IsSome(shared_handle.customrequest)
                /\ shared_handle' = x.handle
                /\ trace' = <<"reset">> \o x.trace
                /\ failed' = x.failed
                /\ IF x.failed = "none" THEN EntersPerform(NewRequest) ELSE ReturnsError
                /\ wire' = NoWire
                /\ UNCHANGED << base_url, token, answer >>

(* A Request that goes out of scope without send(). *)

DropRequest ==
    /\ pc = "building"
    /\ op' = "drop"
    /\ req' = None
    /\ borrowed' = ReleaseBorrow(borrowed)
    /\ pc' = "idle"
    /\ UNCHANGED << base_url, token, shared_handle, rest, response_body,
                    response_headers, result, trace, failed, cur, staleVerb, nreads, nrecv,
                    lastRead, delivered, wire, answer >>

---------------------------------------------------------------------------
(* The callbacks the library invokes during perform(). *)

(* The read closure, lines 112-114 and 116, behind read_function, line 130. *)

ReadFunction(buflen) ==
    /\ pc = "perform"
    /\ nreads < MaxReads
    /\ LET n == IF HasBody(Unwrap(req)) THEN ReadLen(buflen, rest) ELSE 0
       IN  /\ op' = "read_function"
           /\ nreads' = nreads + 1
           /\ lastRead' = [buf |-> buflen, before |-> Len(rest), ret |-> n]
           /\ delivered' = delivered \o SubSeq(rest, 1, n)
           /\ rest' = SubSeq(rest, n + 1, Len(rest))
    /\ UNCHANGED << base_url, token, shared_handle, borrowed, req, pc,
                    response_body, response_headers, result, trace, failed, cur, staleVerb,
                    nrecv, wire, answer >>

(* The write closure, lines 132-137: Vec::write_all appends and cannot fail. *)

WriteFunction(data) ==
    /\ pc = "perform"
    /\ nrecv < MaxRecv
    /\ op' = "write_function"
    /\ nrecv' = nrecv + 1
    /\ response_body' = response_body \o data
    /\ UNCHANGED << base_url, token, shared_handle, borrowed, req, pc, rest,
                    response_headers, result, trace, failed, cur, staleVerb, nreads,
                    lastRead, delivered, wire, answer >>

(* The header closure, lines 139-142. *)

HeaderFunction(data) ==
    /\ pc = "perform"
    /\ nrecv < MaxRecv
    /\ op' = "header_function"
    /\ nrecv' = nrecv + 1
    /\ response_headers' = Append(response_headers, Lossy(data))
    /\ UNCHANGED << base_url, token, shared_handle, borrowed, req, pc, rest,
                    response_body, result, trace, failed, cur, staleVerb, nreads,
                    lastRead, delivered, wire, answer >>

(* perform() returns, lines 143-150: the status is read and the Response built. *)

Perform(native, status, codeFails) ==
    /\ pc = "perform"
    /\ op' = "perform"
    /\ wire' = [err |-> native, status |-> status]
    /\ req' = None
    /\ borrowed' = ReleaseBorrow(borrowed)
    /\ pc' = "idle"
    /\ IF PerformFails(native, status)
       THEN /\ trace' = Append(trace, "perform")
            /\ failed' = "perform"
            /\ result' = Error
       ELSE IF codeFails
       THEN /\ trace' = trace \o <<"perform", "response_code">>
            /\ failed' = "response_code"
            /\ result' = Error
       ELSE /\ trace' = trace \o <<"perform", "response_code">>
            /\ failed' = "none"
            /\ result' = Response(status, response_headers, Some(response_body))
    /\ TransferIdle
    /\ UNCHANGED << base_url, token, shared_handle, cur, staleVerb, answer >>

---------------------------------------------------------------------------

Next ==
    \/ \E e \in Endpoints, m \in Methods :
          \E f \in 0..Len(NewSteps(m, e)) : ClientRequest(e, m, f)
    \/ \E k \in HeaderKeys, v \in HeaderValues : WithHeader(k, v)
    \/ \E f \in 0..Len(SendSteps(NewRequest)) + 2 : Send(f)
    \/ \E e \in Endpoints :
          \E f \in 0..Len(NewSteps("Get", e) \o SendSteps(NewRequest)) : ClientGet(e, f)
    \/ DropRequest
    \/ \E n \in 1..MaxBuf : ReadFunction(n)
    \/ \E d \in Chunks : WriteFunction(d)
    \/ \E d \in HeaderData : HeaderFunction(d)
    \/ \E s \in Statuses : Perform(FALSE, s, FALSE) \/ Perform(FALSE, s, TRUE)
    \/ Perform(TRUE, 0, FALSE)

Spec == Init /\ [][Next]_vars

---------------------------------------------------------------------------
(* send() as a function of the Request it consumes.  No code of the module *)
(* fills Request.body, so the upload path of send() is exercised from the  *)
(* state Client::request leaves, with the body field any Option<Vec<u8>>.  *)

InitSend ==
    /\ base_url \in BaseUrls
    /\ token \in Tokens
    /\ \E m \in Methods, e \in { <<"/", "x">> }, b \in {None} \cup { Some(x) : x \in Bodies } :
          LET r == Exec(Reset(FreshHandle), NewSteps(m, RequestUrl(base_url, e)), 1, 0)
          IN  /\ shared_handle = r.handle
              /\ trace = <<"reset">> \o r.trace
              /\ cur = [method |-> m, endpoint |-> e, via |-> "request"]
              /\ req = Some([NewRequest EXCEPT !.body = b])
    /\ borrowed = TRUE
    /\ pc = "building"
    /\ rest = << >>
    /\ response_body = << >>
    /\ response_headers = << >>
    /\ result = NoResult
    /\ failed = "none"
    /\ op = "request"
    /\ staleVerb = FALSE
    /\ nreads = 0
    /\ nrecv = 0
    /\ lastRead = NoRead
    /\ delivered = << >>
    /\ wire = NoWire
    /\ answer = NoAnswer

SpecSend == InitSend /\ [][Next]_vars

---------------------------------------------------------------------------
(* The Response accessors, lines 162-174, applied to a Response of any     *)
(* status.                                                                 *)

InitResponse ==
    /\ base_url \in BaseUrls
    /\ token \in Tokens
    /\ shared_handle = FreshHandle
    /\ borrowed = FALSE
    /\ req = None
    /\ pc = "idle"
    /\ rest = << >>
    /\ response_body = << >>
    /\ response_headers = << >>
    /\ \E s \in 0..MaxStatus : result = Response(s, << >>, Some(<< >>))
    /\ trace = << >>
    /\ failed = "none"
    /\ op = "new"
    /\ cur = NoCur
    /\ staleVerb = FALSE
    /\ nreads = 0
    /\ nrecv = 0
    /\ lastRead = NoRead
    /\ delivered = << >>
    /\ wire = NoWire
    /\ answer = NoAnswer

Accessor(fn, val) ==
    /\ result.kind = "response"
    /\ answer' = [fn |-> fn, val |-> val]
    /\ UNCHANGED << base_url, token, shared_handle, borrowed, req, pc, rest,
                    response_body, response_headers, result, trace, failed, op,
                    cur, staleVerb, nreads, nrecv, lastRead, delivered, wire >>

\* Response::status
CallStatus == Accessor("status", result.status)

\* Response::failed
CallFailed == Accessor("failed", Failed(result.status))

\* Response::ok
CallOk == Accessor("ok", Ok(result.status))

NextResponse == CallStatus \/ CallFailed \/ CallOk

SpecResponse == InitResponse /\ [][NextResponse]_vars

---------------------------------------------------------------------------
(* What the claims are stated with. *)

IsPrefix(a, b) == Len(a) <= Len(b) /\ SubSeq(b, 1, Len(a)) = a

Last(q) == q[Len(q)]

VerbOf(method) ==
    CASE method = "Head"   -> Some(<<"HEAD">>)
      [] method = "Post"   -> Some(<<"POST">>)
      [] method = "Put"    -> Some(<<"PUT">>)
      [] method = "Delete" -> Some(<<"DELETE">>)
      [] OTHER             -> None

VerbCalls(method) ==
    CASE method = "Get"  -> <<"get">>
      [] method = "Head" -> <<"get", "custom_request", "nobody">>
      [] OTHER           -> <<"custom_request">>

Appends(k) == [i \in 1..k |-> "append"]

\* every fallible call of a request that runs to its Response, in order
FullTrace(method, k, upload) ==
    <<"reset">> \o VerbCalls(method) \o <<"url">> \o Appends(k)
    \o <<"verbose", "http_headers">>
    \o (IF upload THEN <<"upload", "in_filesize">> ELSE << >>)
    \o <<"read_function", "write_function", "header_function">>
    \o <<"perform", "response_code">>

HasNewline(s) == \E i \in 1..Len(s) : s[i] = "NL"

Malformed(line) == HasNul(line) \/ HasNewline(line)

---------------------------------------------------------------------------
(* C1: a request in progress on a client has a handle that was reset       *)
(* first and holds exactly the options of that request: the verb flags of  *)
(* its method, its url, and, once sent, its header list and upload         *)
(* options; nothing set by an earlier request remains.                     *)
C1_HandleHoldsOnlyThisRequest ==
    pc \in {"building", "perform"} =>
        /\ trace[1] = "reset"
        /\ shared_handle.httpget = (cur.method \in {"Get", "Head"})
        /\ shared_handle.customrequest = VerbOf(cur.method)
        /\ shared_handle.nobody = (cur.method = "Head")
        /\ shared_handle.url = Some(base_url \o cur.endpoint)
        /\ IF pc = "perform"
           THEN /\ shared_handle.verbose = TRUE
                /\ shared_handle.httpheader = Some(Unwrap(req).headers)
                /\ shared_handle.upload = IsSome(Unwrap(req).body)
                /\ IsSome(Unwrap(req).body) =>
                       shared_handle.infilesize = Len(Unwrap(Unwrap(req).body))
                /\ ~IsSome(Unwrap(req).body) => shared_handle.infilesize = -1
           ELSE /\ shared_handle.verbose = FALSE
                /\ shared_handle.httpheader = None
                /\ shared_handle.upload = FALSE
                /\ shared_handle.infilesize = -1

\* a GET being performed on a handle that an earlier request left a custom verb on
C1_Witness ==
    /\ pc = "perform"
    /\ cur.via = "get"
    /\ staleVerb
    /\ shared_handle.customrequest = None

(* C2: while a Request holds the handle, starting another request on the   *)
(* client fails at borrow_mut at once: the step panics, and the handle,    *)
(* the live Request and the borrow are left as they were.                  *)
C2_SecondRequestRefused ==
    [][ (borrowed /\ op' \in {"request", "get"}) =>
            /\ pc' = "panic"
            /\ shared_handle' = shared_handle
            /\ req' = req
            /\ borrowed' ]_vars

\* a second request was attempted while a Request was alive
C2_Witness ==
    /\ pc = "panic"
    /\ IsSome(req)
    /\ borrowed
    /\ IsSome(shared_handle.url)

(* C3: a transfer that ends without a native error, and whose status can   *)
(* be read, returns a Response carrying the status the server sent,        *)
(* whatever that status is.                                                *)
C3_HttpErrorStatusIsAResponse ==
    (op = "perform" /\ ~wire.err /\ failed # "response_code") =>
        /\ result.kind = "response"
        /\ result.status = wire.status

\* a 5xx status came back as a Response
C3_Witness ==
    /\ op = "perform"
    /\ result.kind = "response"
    /\ result.status = 500
    /\ cur.via = "get"

(* C4: failed() is true exactly for 400 <= status <= 600, and ok() is its  *)
(* negation.                                                               *)
C4_FailedIffIn400To600 ==
    /\ answer.fn = "failed" =>
           (answer.val <=> (400 <= result.status /\ result.status <= 600))
    /\ answer.fn = "ok" =>
           (answer.val <=> ~(400 <= result.status /\ result.status <= 600))

\* failed() answered true at the upper bound
C4_Witness ==
    /\ answer.fn = "failed"
    /\ answer.val
    /\ result.status = 600

(* C5: a request ends in a Response or in an Error.  An Error is returned  *)
(* by the first call that reports one: that call is the last one made, the *)
(* calls before it are the request's calls in order, each made once, and   *)
(* no Request or Response is left.  A Response is returned only after      *)
(* every call, in order, without an error.                                 *)
C5_FirstErrorEndsTheRequest ==
    /\ result.kind \in {"none", "error", "response"}
    /\ (failed # "none") <=> (result.kind = "error")
    /\ result.kind = "error" =>
           /\ result = Error
           /\ req = None
           /\ pc = "idle"
           /\ Last(trace) = failed
           /\ \E k \in 0..(MaxHeaders + 1) :
                 IsPrefix(trace, FullTrace(cur.method, k, FALSE))
    /\ result.kind = "response" =>
           /\ pc = "idle"
           /\ \E k \in 0..MaxHeaders : trace = FullTrace(cur.method, k, FALSE)

\* get() returned the Error of a call in the middle of send()
C5_Witness ==
    /\ result.kind = "error"
    /\ failed = "http_headers"
    /\ cur.via = "get"

(* C6: the url set on the handle is base_url followed by the endpoint,     *)
(* with nothing between them, and no step changes base_url.                *)
C6_UrlIsConcatenation ==
    [][ /\ base_url' = base_url
        /\ IsSome(shared_handle'.url) =>
               /\ Unwrap(shared_handle'.url) = base_url \o cur'.endpoint
               /\ Len(Unwrap(shared_handle'.url)) = Len(base_url) + Len(cur'.endpoint) ]_vars

\* a base_url ending in "/" and an endpoint starting with "/" keep both
C6_Witness ==
    /\ base_url = <<"h", "/">>
    /\ shared_handle.url = Some(<<"h", "/", "/", "x">>)
    /\ op \in {"request", "get"}

(* C7: during the transfer of a request with a body, each read callback    *)
(* invocation copies min(buffer length, remaining) bytes; what has been    *)
(* delivered followed by what remains is the body; when nothing remains    *)
(* the delivered bytes are the body, as many as in_filesize declares, and  *)
(* a further invocation returns 0.                                         *)
C7_ReadDeliversBodyInOrder ==
    (pc = "perform" /\ IsSome(Unwrap(req).body)) =>
        LET body == Unwrap(Unwrap(req).body)
        IN  /\ delivered \o rest = body
            /\ nreads > 0 =>
                   /\ lastRead.ret = Min(lastRead.buf, lastRead.before)
                   /\ lastRead.before = Len(rest) + lastRead.ret
                   /\ (lastRead.before = 0 => lastRead.ret = 0)
            /\ nreads = 0 => delivered = << >>
            /\ rest = << >> =>
                   /\ delivered = body
                   /\ Len(delivered) = shared_handle.infilesize

\* a two-byte body delivered, then a read after it was exhausted
C7_Witness ==
    /\ pc = "perform"
    /\ Unwrap(req).body = Some(<<"p", "q">>)
    /\ delivered = <<"p", "q">>
    /\ nreads = 3
    /\ lastRead.before = 0
    /\ lastRead.ret = 0

(* C8: a transfer is an upload exactly when the request has a body: with a *)
(* body upload is set and in_filesize is the body's length; without one    *)
(* neither call is made and the read callback returns 0.                   *)
C8_UploadIffBody ==
    pc = "perform" =>
        LET r == Unwrap(req)
            called(name) == \E i \in 1..Len(trace) : trace[i] = name
        IN  IF IsSome(r.body)
            THEN /\ shared_handle.upload = TRUE
                 /\ shared_handle.infilesize = Len(Unwrap(r.body))
                 /\ called("upload")
                 /\ called("in_filesize")
            ELSE /\ shared_handle.upload = FALSE
                 /\ shared_handle.infilesize = -1
                 /\ ~called("upload")
                 /\ ~called("in_filesize")
                 /\ lastRead.ret = 0
                 /\ delivered = << >>

\* an upload of a two-byte body being performed
C8_Witness ==
    /\ pc = "perform"
    /\ Unwrap(req).body = Some(<<"p", "q">>)
    /\ shared_handle.upload
    /\ shared_handle.infilesize = 2

(* C9 as stated: no Request, and no handle, holds a header line with a     *)
(* newline or a NUL in it.                                                 *)
C9_NoMalformedLineInAnyList ==
    /\ IsSome(req) =>
           \A i \in 1..Len(Unwrap(req).headers) : ~Malformed(Unwrap(req).headers[i])
    /\ IsSome(shared_handle.httpheader) =>
           \A i \in 1..Len(Unwrap(shared_handle.httpheader)) :
               ~Malformed(Unwrap(shared_handle.httpheader)[i])

(* C9, amended: a header line with an interior NUL makes with_header       *)
(* return an Error and drop the Request, so no Request and no handle holds *)
(* such a line.  (A line with a newline is appended as it is.)             *)
C9_NulLineIsRejected ==
    /\ IsSome(req) =>
           \A i \in 1..Len(Unwrap(req).headers) : ~HasNul(Unwrap(req).headers[i])
    /\ IsSome(shared_handle.httpheader) =>
           \A i \in 1..Len(Unwrap(shared_handle.httpheader)) :
               ~HasNul(Unwrap(shared_handle.httpheader)[i])
    /\ failed = "append" => (result = Error /\ req = None /\ ~borrowed)

\* with_header returned an Error
C9_Witness ==
    /\ op = "with_header"
    /\ failed = "append"
    /\ result = Error
    /\ req = None

(* C10: whenever no request is in progress the handle is not borrowed,     *)
(* whatever the last call returned; a request is refused only while a      *)
(* Request is alive.                                                       *)
C10_BorrowReleasedOnReturn ==
    /\ pc = "idle" => (~borrowed /\ req = None)
    /\ pc = "panic" => IsSome(req)
    /\ (op = "get" /\ pc # "panic") => (pc = "perform" \/ result = Error)

\* get() returned the Error of perform()
C10_Witness ==
    /\ cur.via = "get"
    /\ pc = "idle"
    /\ result = Error
    /\ failed = "perform"
    /\ ~borrowed

====
